---------------------------- MODULE Spec2Model ----------------------------
(***************************************************************************)
(* GoalLine frontend: the session-state service (AuthService), the         *)
(* API-access service (ApiService) and the routed view components, as      *)
(* state machines.  JavaScript runs each handler to completion on a        *)
(* single thread, so one handler (a method call, or the callback of one    *)
(* HTTP response) is one atomic action.                                     *)
(***************************************************************************)
EXTENDS Integers, Sequences, FiniteSets, Bags, TLC

(***************************************************************************)
(* Bounds of the model.                                                    *)
(***************************************************************************)
\* login/register/logout invocations explored on one AuthService
MaxAuthOps == 3
\* HTTP requests a view has in flight at once
MaxPending == 2
\* length of the notes list up to which saveNote is explored
MaxNotes == 1

(***************************************************************************)
(* State.                                                                  *)
(***************************************************************************)
\* AuthService and the storage it owns
VARIABLES
    localStorage,   \* the browser's key-value store: key -> None | Some(string)
    phase,          \* "new": not constructed; "ok": constructed; "failed": the constructor threw
    userSubject,    \* BehaviorSubject<User | null>: its current value
    published,      \* number of userSubject.next(...) calls so far
    inflight,       \* the login/register POSTs subscribed to and not yet answered
    nAuthOps,       \* number of login/register/logout invocations so far
    boot,           \* history: localStorage as the constructor found it
    applied,        \* history: the last session transition applied (a success response, or a logout)
    lastAuth        \* history: the last AuthService handler that ran, and the state before it

\* A caller of ApiService
VARIABLES
    apiCall,        \* the last ApiService operation a caller invoked, with its argument
    outgoing        \* the HTTP request that call sent

\* The routed view components
VARIABLES
    route,                  \* the component the router outlet shows ("none": nothing yet)
    dashboardComponent,     \* the fields of each component (its defaults while not shown)
    competitionsComponent,
    teamsComponent,
    playersComponent,
    matchesComponent,
    notesComponent,
    analyticsComponent,
    pending,                \* bag of the requests in flight, each with the subscription awaiting it
    lastView                \* history: the last view handler that ran

authVars == <<localStorage, phase, userSubject, published, inflight, nAuthOps, boot, applied, lastAuth>>
apiVars == <<apiCall, outgoing>>
componentVars == <<dashboardComponent, competitionsComponent, teamsComponent, playersComponent,
                   matchesComponent, notesComponent, analyticsComponent>>
viewVars == <<route, componentVars, pending, lastView>>
vars == <<authVars, apiVars, viewVars>>

(***************************************************************************)
(* Values that may be null/undefined: None, or Some(v).                    *)
(***************************************************************************)
None == <<>>
Some(v) == <<v>>
IsSome(o) == o # None
Val(o) == o[1]

\* JavaScript truthiness of a `string | null | undefined` value.
Truthy(o) == IsSome(o) /\ Val(o) # ""

(***************************************************************************)
(* models.ts: User.                                                        *)
(***************************************************************************)
Roles == {"user", "admin"}
User == { [_id |-> "u1", email |-> "a@b.com", role |-> "user"],
          [_id |-> "u2", email |-> "c@d.com", role |-> "admin"] }

(***************************************************************************)
(* JSON text is a sequence of lexemes.  JSON_stringify renders a User      *)
(* object; JSON_parse reads an object or the literal null and throws       *)
(* (ok = FALSE) on anything else.                                          *)
(***************************************************************************)
JSON_stringify(u) ==
    <<"{", "_id", u._id, "email", u.email, "role", u.role, "}">>

JSON_parse(text) ==
    IF text = <<"null">>
    THEN [ok |-> TRUE, value |-> None]
    ELSE IF /\ Len(text) = 8
            /\ text[1] = "{" /\ text[8] = "}"
            /\ text[2] = "_id" /\ text[4] = "email" /\ text[6] = "role"
         THEN [ok |-> TRUE,
               value |-> Some([_id |-> text[3], email |-> text[5], role |-> text[7]])]
         ELSE [ok |-> FALSE, value |-> None]

(***************************************************************************)
(* AuthService                                                             *)
(***************************************************************************)

tokenKey == "goalline.jwt"
userKey == "goalline.user"
Keys == {tokenKey, userKey}

getItem(ls, k) == ls[k]
setItem(ls, k, v) == [ls EXCEPT ![k] = Some(v)]
removeItem(ls, k) == [ls EXCEPT ![k] = None]

\* get token(): string | null
token(ls) == getItem(ls, tokenKey)

isAuthenticated(ls) == Truthy(token(ls))

\* The session as the handlers see it: storage, the subject's value, the count of next() calls.
Session == [ls |-> localStorage, subj |-> userSubject, n |-> published]

\* BehaviorSubject.next(v)
next(s, v) == [s EXCEPT !.subj = v, !.n = @ + 1]

\* Variants of persistAuth with a plausible slip each.
persistAuth_tokenOnly(s, res) ==
    next([s EXCEPT !.ls = setItem(@, tokenKey, res.token)], Some(res.user))

persistAuth_noPublish(s, res) ==
    LET s1 == [s EXCEPT !.ls = setItem(@, tokenKey, res.token)]
    IN  [s1 EXCEPT !.ls = setItem(@, userKey, JSON_stringify(res.user))]

persistAuth_firstTokenWins(s, res) ==
    LET s1 == IF Truthy(token(s.ls)) THEN s
              ELSE [s EXCEPT !.ls = setItem(@, tokenKey, res.token)]
        s2 == [s1 EXCEPT !.ls = setItem(@, userKey, JSON_stringify(res.user))]
    IN  next(s2, Some(res.user))

persistAuth(s, res) ==
    LET s1 == [s EXCEPT !.ls = setItem(@, tokenKey, res.token)]
        s2 == [s1 EXCEPT !.ls = setItem(@, userKey, JSON_stringify(res.user))]
    IN  next(s2, Some(res.user))

\* A variant of logout that leaves the Identity entry behind.
logout_keepUser(s) ==
    next([s EXCEPT !.ls = removeItem(@, tokenKey)], None)

logout(s) ==
    LET s1 == [s EXCEPT !.ls = removeItem(@, tokenKey)]
        s2 == [s1 EXCEPT !.ls = removeItem(@, userKey)]
    IN  next(s2, None)

\* readUser(): throws when JSON.parse throws
readUser(ls) ==
    LET stored == getItem(ls, userKey)
    IN  IF IsSome(stored) /\ Val(stored) # <<>>
        THEN JSON_parse(Val(stored))
        ELSE [ok |-> TRUE, value |-> None]

\* pipe(tap((res) => this.persistAuth(res))): the side effect runs on a next
\* notification only, and every notification is passed on to the subscriber.
tap_clearOnError(s, notif) ==
    [s |-> IF notif.kind = "next" THEN persistAuth(s, notif.value)
           ELSE [s EXCEPT !.ls = removeItem(removeItem(@, tokenKey), userKey)],
     out |-> notif]

tap(s, notif) ==
    [s |-> IF notif.kind = "next" THEN persistAuth(s, notif.value) ELSE s,
     out |-> notif]

(***************************************************************************)
(* The backend's answers to POST /auth/login and POST /auth/register.      *)
(***************************************************************************)
Tokens == {"t1", "t2"}
AuthResponse == [token : Tokens, user : User]
HttpErrors == { [status |-> 401, message |-> Some("Invalid credentials")],
                [status |-> 0, message |-> None] }
Notifications == [kind : {"next"}, value : AuthResponse]
                 \cup [kind : {"error"}, value : HttpErrors]

Credentials == { [email |-> "a@b.com", password |-> "pw1"],
                 [email |-> "c@d.com", password |-> "pw2"] }

\* What persistent storage may hold when the page is opened.
StoredUsers == { None, Some(<<"null">>), Some(<<"{", "_id">>),
                 Some(JSON_stringify([_id |-> "u1", email |-> "a@b.com", role |-> "user"])) }
BootStorage == { [k \in Keys |-> IF k = tokenKey THEN t ELSE u] :
                   t \in {None, Some("t1")}, u \in StoredUsers }

NoEvent == [op |-> "none"]

InitAuth ==
    /\ localStorage \in BootStorage
    /\ phase = "new"
    /\ userSubject = None
    /\ published = 0
    /\ inflight = {}
    /\ nAuthOps = 0
    /\ boot = localStorage
    /\ applied = None
    /\ lastAuth = NoEvent

\* No AuthService in play: empty storage, nothing constructed
AuthIdle ==
    /\ localStorage = [k \in Keys |-> None]
    /\ phase = "new"
    /\ userSubject = None
    /\ published = 0
    /\ inflight = {}
    /\ nAuthOps = 0
    /\ boot = localStorage
    /\ applied = None
    /\ lastAuth = NoEvent

\* new AuthService(http): the field initialiser runs readUser()
Construct ==
    /\ phase = "new"
    /\ LET r == readUser(localStorage)
       IN  /\ phase' = IF r.ok THEN "ok" ELSE "failed"
           /\ userSubject' = r.value
    /\ lastAuth' = [op |-> "construct"]
    /\ UNCHANGED <<localStorage, published, inflight, nAuthOps, boot, applied>>
    /\ UNCHANGED <<apiVars, viewVars>>

authPost(path, cred) == [method |-> "POST", url |-> path, body |-> cred]

\* login(email, password)
login(cred) == authPost(<<"auth", "login">>, cred)

\* register(email, password)
register(cred) == authPost(<<"auth", "register">>, cred)

\* login(email, password).subscribe(...): the POST is issued
Login(cred) ==
    /\ phase = "ok"
    /\ nAuthOps < MaxAuthOps
    /\ nAuthOps' = nAuthOps + 1
    /\ inflight' = inflight \cup {[id |-> nAuthOps + 1, op |-> "login", request |-> login(cred)]}
    /\ lastAuth' = [op |-> "subscribe"]
    /\ UNCHANGED <<localStorage, phase, userSubject, published, boot, applied>>
    /\ UNCHANGED <<apiVars, viewVars>>

\* register(email, password).subscribe(...)
Register(cred) ==
    /\ phase = "ok"
    /\ nAuthOps < MaxAuthOps
    /\ nAuthOps' = nAuthOps + 1
    /\ inflight' = inflight \cup {[id |-> nAuthOps + 1, op |-> "register", request |-> register(cred)]}
    /\ lastAuth' = [op |-> "subscribe"]
    /\ UNCHANGED <<localStorage, phase, userSubject, published, boot, applied>>
    /\ UNCHANGED <<apiVars, viewVars>>

\* The response of call c arrives: tap runs, then the caller's subscriber gets
\* what the pipe passes on.
AuthResponds(c, notif) ==
    /\ c \in inflight
    /\ LET t == tap(Session, notif)
       IN  /\ localStorage' = t.s.ls
           /\ userSubject' = t.s.subj
           /\ published' = t.s.n
           /\ lastAuth' = [op |-> c.op, notif |-> notif, delivered |-> t.out, pre |-> Session]
    /\ inflight' = inflight \ {c}
    /\ applied' = IF notif.kind = "next" THEN Some([kind |-> "auth", res |-> notif.value])
                  ELSE applied
    /\ UNCHANGED <<phase, nAuthOps, boot>>
    /\ UNCHANGED <<apiVars, viewVars>>

\* AuthService.logout(), also reached through AppComponent.logout()
Logout ==
    /\ phase = "ok"
    /\ nAuthOps < MaxAuthOps
    /\ nAuthOps' = nAuthOps + 1
    /\ LET s == logout(Session)
       IN  /\ localStorage' = s.ls
           /\ userSubject' = s.subj
           /\ published' = s.n
    /\ lastAuth' = [op |-> "logout", pre |-> Session]
    /\ applied' = Some([kind |-> "logout"])
    /\ UNCHANGED <<phase, inflight, boot>>
    /\ UNCHANGED <<apiVars, viewVars>>

NextAuth ==
    \/ Construct
    \/ \E cred \in Credentials : Login(cred)
    \/ \E cred \in Credentials : Register(cred)
    \/ \E c \in inflight, notif \in Notifications : AuthResponds(c, notif)
    \/ Logout

(***************************************************************************)
(* ApiService: every operation builds one HTTP request (sent when the      *)
(* returned Observable is subscribed to).                                  *)
(***************************************************************************)

\* new HttpParams(): no parameter.  The parameters are a sequence of
\* key/value pairs, one per key, in the order the keys were first set.
HttpParams == <<>>

\* HttpParams.set(key, value): the parameters with key carrying value only
set(params, key, value) ==
    IF \E i \in 1..Len(params) : params[i].key = key
    THEN [i \in 1..Len(params) |->
            IF params[i].key = key THEN [key |-> key, value |-> value] ELSE params[i]]
    ELSE Append(params, [key |-> key, value |-> value])

\* HttpParams.get(key): the value of key, or null
get(params, key) ==
    IF \E i \in 1..Len(params) : params[i].key = key
    THEN Some(params[CHOOSE i \in 1..Len(params) : params[i].key = key].value)
    ELSE None

\* filter?.key
Field(filter, key) == IF IsSome(filter) THEN Val(filter)[key] ELSE None

\* A variant that tests for undefined instead of truthiness.
setIfPresent_definedOnly(params, filter, key) ==
    IF IsSome(Field(filter, key)) THEN set(params, key, Val(Field(filter, key))) ELSE params

\* if (filter?.key) params = params.set('key', filter.key);
setIfPresent(params, filter, key) ==
    IF Truthy(Field(filter, key)) THEN set(params, key, Val(Field(filter, key))) ELSE params

\* A URL is the sequence of its path segments below environment.apiBaseUrl.
http_get(path, params) ==
    [method |-> "GET", url |-> path, params |-> params, body |-> None]
http_post(path, body) ==
    [method |-> "POST", url |-> path, params |-> HttpParams, body |-> Some(body)]
http_delete(path) ==
    [method |-> "DELETE", url |-> path, params |-> HttpParams, body |-> None]

listCompetitions == http_get(<<"competitions">>, HttpParams)

listTeams(filter) ==
    LET p1 == setIfPresent(HttpParams, filter, "name")
        p2 == setIfPresent(p1, filter, "country")
    IN  http_get(<<"teams">>, p2)

listPlayers(filter) ==
    LET p1 == setIfPresent(HttpParams, filter, "team_id")
        p2 == setIfPresent(p1, filter, "position")
    IN  http_get(<<"players">>, p2)

listMatches(filter) ==
    LET p1 == setIfPresent(HttpParams, filter, "competition_id")
        p2 == setIfPresent(p1, filter, "season_id")
        p3 == setIfPresent(p2, filter, "team_id")
        p4 == setIfPresent(p3, filter, "status")
    IN  http_get(<<"matches">>, p4)

getMatch(id) == http_get(<<"matches", id>>, HttpParams)

listNotes(matchId) == http_get(<<"notes">>, set(HttpParams, "match_id", matchId))

createNote(matchId, note) == http_post(<<"notes">>, [match_id |-> matchId, note |-> note])

deleteNote(id) == http_delete(<<"notes", id>>)

fetchFormAnalytics == http_get(<<"analytics", "form">>, HttpParams)

\* The keys each list operation's filter type declares.
TeamKeys == {"name", "country"}
PlayerKeys == {"team_id", "position"}
MatchKeys == {"competition_id", "season_id", "team_id", "status"}
FilterKeys(op) ==
    CASE op = "listTeams" -> TeamKeys
      [] op = "listPlayers" -> PlayerKeys
      [] op = "listMatches" -> MatchKeys

\* A filter argument: undefined, or an object whose keys are each undefined,
\* the empty string or a non-empty string.
FilterValues == {None, Some(""), Some("T1"), Some("FT")}
Filters(keys) == {None} \cup {Some(f) : f \in [keys -> FilterValues]}

MatchIds == {"m1", "m2"}
NoteIds == {"n1", "n2"}

\* Note text: a sequence of characters.
Texts == {<<>>, <<" ">>, <<"a">>}

InitApi ==
    /\ apiCall = None
    /\ outgoing = None

ApiListCompetitions ==
    /\ apiCall' = Some([op |-> "listCompetitions"])
    /\ outgoing' = Some(listCompetitions)
    /\ UNCHANGED <<authVars, viewVars>>

ApiListTeams(filter) ==
    /\ apiCall' = Some([op |-> "listTeams", filter |-> filter])
    /\ outgoing' = Some(listTeams(filter))
    /\ UNCHANGED <<authVars, viewVars>>

ApiListPlayers(filter) ==
    /\ apiCall' = Some([op |-> "listPlayers", filter |-> filter])
    /\ outgoing' = Some(listPlayers(filter))
    /\ UNCHANGED <<authVars, viewVars>>

ApiListMatches(filter) ==
    /\ apiCall' = Some([op |-> "listMatches", filter |-> filter])
    /\ outgoing' = Some(listMatches(filter))
    /\ UNCHANGED <<authVars, viewVars>>

ApiGetMatch(id) ==
    /\ apiCall' = Some([op |-> "getMatch", id |-> id])
    /\ outgoing' = Some(getMatch(id))
    /\ UNCHANGED <<authVars, viewVars>>

ApiListNotes(matchId) ==
    /\ apiCall' = Some([op |-> "listNotes", matchId |-> matchId])
    /\ outgoing' = Some(listNotes(matchId))
    /\ UNCHANGED <<authVars, viewVars>>

ApiCreateNote(matchId, note) ==
    /\ apiCall' = Some([op |-> "createNote", matchId |-> matchId, note |-> note])
    /\ outgoing' = Some(createNote(matchId, note))
    /\ UNCHANGED <<authVars, viewVars>>

ApiDeleteNote(id) ==
    /\ apiCall' = Some([op |-> "deleteNote", id |-> id])
    /\ outgoing' = Some(deleteNote(id))
    /\ UNCHANGED <<authVars, viewVars>>

ApiFetchFormAnalytics ==
    /\ apiCall' = Some([op |-> "fetchFormAnalytics"])
    /\ outgoing' = Some(fetchFormAnalytics)
    /\ UNCHANGED <<authVars, viewVars>>

NextApi ==
    \/ ApiListCompetitions
    \/ \E filter \in Filters(TeamKeys) : ApiListTeams(filter)
    \/ \E filter \in Filters(PlayerKeys) : ApiListPlayers(filter)
    \/ \E filter \in Filters(MatchKeys) : ApiListMatches(filter)
    \/ \E id \in MatchIds : ApiGetMatch(id)
    \/ \E matchId \in MatchIds : ApiListNotes(matchId)
    \/ \E matchId \in MatchIds, note \in Texts : ApiCreateNote(matchId, note)
    \/ \E id \in NoteIds : ApiDeleteNote(id)
    \/ ApiFetchFormAnalytics

(***************************************************************************)
(* The backend's answers, as the components receive them.                  *)
(***************************************************************************)
Competition(id) == [id |-> id, name |-> "name of " \o id]
Team(id) == [id |-> id, name |-> "name of " \o id]
Player(id) == [id |-> id, name |-> "name of " \o id]
Match(id) == [id |-> id, competition_id |-> "c1", season_id |-> "s1",
              home_team_id |-> "T1", away_team_id |-> "T2"]
Note(id, matchId, text) ==
    [id |-> id, match_id |-> matchId, note |-> text, created_by |-> [user_id |-> "u1"]]
FormRow == [team |-> "T1", n |-> 2, form |-> <<"W", "L">>, form_str |-> "WL"]

\* Paginated<T>
Paginated(items) == [items |-> items, page |-> 1, page_size |-> 20, total |-> Len(items)]

\* The pages a list endpoint answers with: an empty one, or one of six items.
SixIds(prefix) == [i \in 1..6 |-> prefix \o ToString(i)]
CompetitionPages == { Paginated(<<>>), Paginated([i \in 1..6 |-> Competition(SixIds("c")[i])]) }
TeamPages == { Paginated(<<>>), Paginated([i \in 1..6 |-> Team(SixIds("T")[i])]) }
PlayerPages == { Paginated(<<>>), Paginated([i \in 1..6 |-> Player(SixIds("p")[i])]) }
MatchPages == { Paginated(<<>>), Paginated([i \in 1..6 |-> Match(SixIds("m")[i])]) }

FormResponse == { [filters |-> <<>>, data |-> <<>>], [filters |-> <<>>, data |-> <<FormRow>>] }

NoteLists(matchId) ==
    { <<>>,
      <<Note("n1", matchId, <<"a">>)>>,
      <<Note("n1", matchId, <<"a">>), Note("n2", matchId, <<"a">>)>> }

ApiErrors == { [status |-> 500, message |-> Some("Server error")],
               [status |-> 0, message |-> None] }

\* What a subscription is notified of: a value (next) or an error
NextNotification(value) == [kind |-> "next", value |-> Some(value), error |-> None]
ErrorNotification(err) == [kind |-> "error", value |-> None, error |-> Some(err)]
Failures == {ErrorNotification(err) : err \in ApiErrors}

\* POST /notes: the backend rejects an empty note with a validation error and
\* otherwise answers with the created Note (or fails).
createNoteAnswers(body) ==
    IF body.note = <<>>
    THEN {ErrorNotification([status |-> 422, message |-> Some("Note text is required")])} \cup Failures
    ELSE {NextNotification(Note(id, body.match_id, body.note)) : id \in NoteIds} \cup Failures

\* What a request of ApiService operation op can be answered with.
Answers(op, request) ==
    CASE op = "listCompetitions" -> {NextNotification(pg) : pg \in CompetitionPages} \cup Failures
      [] op = "listTeams" -> {NextNotification(pg) : pg \in TeamPages} \cup Failures
      [] op = "listPlayers" -> {NextNotification(pg) : pg \in PlayerPages} \cup Failures
      [] op = "listMatches" -> {NextNotification(pg) : pg \in MatchPages} \cup Failures
      [] op = "getMatch" -> {NextNotification(Match(request.url[2]))} \cup Failures
      [] op = "listNotes" ->
            {NextNotification(l) : l \in NoteLists(Val(get(request.params, "match_id")))} \cup Failures
      [] op = "createNote" -> createNoteAnswers(Val(request.body))
      [] op = "deleteNote" -> {NextNotification(None)} \cup Failures
      [] op = "fetchFormAnalytics" -> {NextNotification(r) : r \in FormResponse} \cup Failures

(***************************************************************************)
(* JavaScript helpers the components use.                                  *)
(***************************************************************************)
\* Array.prototype.slice(from, to)
slice(items, from, to) ==
    SubSeq(items, from + 1, IF to < Len(items) THEN to ELSE Len(items))

\* String.prototype.trim on a sequence of characters
RECURSIVE trimStart(_)
trimStart(text) ==
    IF text # <<>> /\ Head(text) = " " THEN trimStart(Tail(text)) ELSE text
RECURSIVE trimEnd(_)
trimEnd(text) ==
    IF text # <<>> /\ text[Len(text)] = " "
    THEN trimEnd(SubSeq(text, 1, Len(text) - 1)) ELSE text
trim(text) == trimEnd(trimStart(text))

\* value || undefined, for a string value
orUndefined(value) == IF value # "" THEN Some(value) ELSE None

\* err?.error?.message || fallback
messageOr(err, fallback) == IF Truthy(err.message) THEN Val(err.message) ELSE fallback

\* A variant of the notes filter that drops only the first match.
filterOutId_firstOnly(notes, id) ==
    LET hits == {i \in 1..Len(notes) : notes[i].id = id}
    IN  IF hits = {} THEN notes
        ELSE LET h == CHOOSE i \in hits : \A j \in hits : i <= j
             IN  SubSeq(notes, 1, h - 1) \o SubSeq(notes, h + 1, Len(notes))

\* this.notes.filter((n) => n.id !== id)
filterOutId(notes, id) == SelectSeq(notes, LAMBDA n : n.id # id)

(***************************************************************************)
(* The components: their initial fields and their handlers.  A handler     *)
(* yields the component's new fields and the requests it subscribes to.    *)
(***************************************************************************)
\* A subscription: the ApiService operation called, the request it sends, the
\* callbacks (by name) that await the answer, and the id their closure holds.
Sub(for, op, request) == [for |-> for, op |-> op, request |-> request, id |-> None]

DashboardComponent ==
    [competitions |-> <<>>, teams |-> <<>>, matches |-> <<>>, loading |-> TRUE]
CompetitionsComponent == [competitions |-> <<>>, loading |-> FALSE]
TeamsComponent == [teams |-> <<>>, loading |-> FALSE, name |-> "", country |-> ""]
PlayersComponent == [players |-> <<>>, team_id |-> "", position |-> "", loading |-> FALSE]
MatchesComponent == [matches |-> <<>>, loading |-> FALSE, team_id |-> "", status |-> ""]
NotesComponent ==
    [matchId |-> "", match |-> None, notes |-> <<>>, noteText |-> <<>>, error |-> "",
     loading |-> FALSE]
AnalyticsComponent == [data |-> <<>>, loading |-> FALSE, error |-> ""]

\* DashboardComponent.refresh
Dashboard_refresh(c) ==
    [c |-> [c EXCEPT !.loading = TRUE],
     send |-> { Sub("dashboard.competitions", "listCompetitions", listCompetitions),
                Sub("dashboard.teams", "listTeams", listTeams(None)),
                Sub("dashboard.matches", "listMatches", listMatches(None)) }]

\* The three subscribe callbacks of refresh (next only)
Dashboard_on(c, for, notif) ==
    IF notif.kind # "next" THEN c
    ELSE CASE for = "dashboard.competitions" ->
                [c EXCEPT !.competitions = slice(Val(notif.value).items, 0, 4)]
           [] for = "dashboard.teams" ->
                [c EXCEPT !.teams = slice(Val(notif.value).items, 0, 5)]
           [] for = "dashboard.matches" ->
                [c EXCEPT !.matches = slice(Val(notif.value).items, 0, 5), !.loading = FALSE]

\* CompetitionsComponent.load
Competitions_load(c) ==
    [c |-> [c EXCEPT !.loading = TRUE],
     send |-> { Sub("competitions.load", "listCompetitions", listCompetitions) }]

Competitions_on(c, for, notif) ==
    IF notif.kind # "next" THEN c
    ELSE [c EXCEPT !.competitions = Val(notif.value).items, !.loading = FALSE]

\* TeamsComponent.load
Teams_load(c) ==
    [c |-> [c EXCEPT !.loading = TRUE],
     send |-> { Sub("teams.load", "listTeams",
                    listTeams(Some([name |-> Some(c.name), country |-> Some(c.country)]))) }]

Teams_on(c, for, notif) ==
    IF notif.kind # "next" THEN c
    ELSE [c EXCEPT !.teams = Val(notif.value).items, !.loading = FALSE]

\* PlayersComponent.load
Players_load(c) ==
    [c |-> [c EXCEPT !.loading = TRUE],
     send |-> { Sub("players.load", "listPlayers",
                    listPlayers(Some([team_id |-> orUndefined(c.team_id),
                                      position |-> orUndefined(c.position)]))) }]

Players_on(c, for, notif) ==
    IF notif.kind # "next" THEN c
    ELSE [c EXCEPT !.players = Val(notif.value).items, !.loading = FALSE]

\* MatchesComponent.load
Matches_load(c) ==
    [c |-> [c EXCEPT !.loading = TRUE],
     send |-> { Sub("matches.load", "listMatches",
                    listMatches(Some([competition_id |-> None, season_id |-> None,
                                      team_id |-> orUndefined(c.team_id),
                                      status |-> orUndefined(c.status)]))) }]

Matches_on(c, for, notif) ==
    IF notif.kind # "next" THEN c
    ELSE [c EXCEPT !.matches = Val(notif.value).items, !.loading = FALSE]

\* AnalyticsComponent.load
Analytics_load(c) ==
    [c |-> [c EXCEPT !.loading = TRUE],
     send |-> { Sub("analytics.load", "fetchFormAnalytics", fetchFormAnalytics) }]

Analytics_on(c, for, notif) ==
    IF notif.kind = "next"
    THEN [c EXCEPT !.data = Val(notif.value).data, !.loading = FALSE]
    ELSE [c EXCEPT !.error = messageOr(Val(notif.error), "Unable to fetch analytics"),
                   !.loading = FALSE]

\* NotesComponent.load
Notes_load(c) ==
    [c |-> [c EXCEPT !.loading = TRUE],
     send |-> { Sub("notes.getMatch", "getMatch", getMatch(c.matchId)),
                Sub("notes.listNotes", "listNotes", listNotes(c.matchId)) }]

\* NotesComponent.ngOnInit, with the route's matchId parameter (null if none)
Notes_ngOnInit(c, param) ==
    LET c1 == [c EXCEPT !.matchId = IF Truthy(param) THEN Val(param) ELSE ""]
    IN  IF c1.matchId # "" THEN Notes_load(c1) ELSE [c |-> c1, send |-> {}]

\* A variant of saveNote that tests the text without trimming it.
Notes_saveNote_untrimmed(c) ==
    IF c.noteText = <<>>
    THEN [c |-> [c EXCEPT !.error = "Write something before submitting"], send |-> {}]
    ELSE [c |-> [c EXCEPT !.error = ""],
          send |-> { Sub("notes.createNote", "createNote", createNote(c.matchId, c.noteText)) }]

\* NotesComponent.saveNote
Notes_saveNote(c) ==
    IF trim(c.noteText) = <<>>
    THEN [c |-> [c EXCEPT !.error = "Write something before submitting"], send |-> {}]
    ELSE [c |-> [c EXCEPT !.error = ""],
          send |-> { Sub("notes.createNote", "createNote", createNote(c.matchId, c.noteText)) }]

\* NotesComponent.delete
Notes_delete(c, id) ==
    [c |-> c,
     send |-> { [Sub("notes.delete", "deleteNote", deleteNote(id)) EXCEPT !.id = Some(id)] }]

\* The subscribe callbacks of NotesComponent, for subscription e
Notes_on(c, e, notif) ==
    CASE e.for = "notes.getMatch" ->
            IF notif.kind = "next" THEN [c EXCEPT !.match = notif.value] ELSE c
      [] e.for = "notes.listNotes" ->
            IF notif.kind = "next"
            THEN [c EXCEPT !.notes = Val(notif.value), !.loading = FALSE]
            ELSE [c EXCEPT !.error = messageOr(Val(notif.error), "Unable to fetch notes"),
                           !.loading = FALSE]
      [] e.for = "notes.createNote" ->
            IF notif.kind = "next"
            THEN [c EXCEPT !.notes = Append(@, Val(notif.value)), !.noteText = <<>>]
            ELSE [c EXCEPT !.error = messageOr(Val(notif.error), "Unable to save note")]
      [] e.for = "notes.delete" ->
            IF notif.kind = "next"
            THEN [c EXCEPT !.notes = filterOutId(@, Val(e.id))]
            ELSE c

(***************************************************************************)
(* The router and the components' actions.                                 *)
(***************************************************************************)
Idle == [op |-> "none"]

InitViews ==
    /\ route = "none"
    /\ dashboardComponent = DashboardComponent
    /\ competitionsComponent = CompetitionsComponent
    /\ teamsComponent = TeamsComponent
    /\ playersComponent = PlayersComponent
    /\ matchesComponent = MatchesComponent
    /\ notesComponent = NotesComponent
    /\ analyticsComponent = AnalyticsComponent
    /\ pending = EmptyBag
    /\ lastView = Idle

InFlight == BagCardinality(pending)

\* The router shows component `to`: it is constructed and ngOnInit has run
\* (r: its fields and the requests ngOnInit subscribed to).  The component
\* shown before is destroyed; what its requests are answered with reaches no
\* live component.
Show(to, r) ==
    /\ dashboardComponent' = IF to = "dashboard" THEN r.c ELSE DashboardComponent
    /\ competitionsComponent' = IF to = "competitions" THEN r.c ELSE CompetitionsComponent
    /\ teamsComponent' = IF to = "teams" THEN r.c ELSE TeamsComponent
    /\ playersComponent' = IF to = "players" THEN r.c ELSE PlayersComponent
    /\ matchesComponent' = IF to = "matches" THEN r.c ELSE MatchesComponent
    /\ notesComponent' = IF to = "notes" THEN r.c ELSE NotesComponent
    /\ analyticsComponent' = IF to = "analytics" THEN r.c ELSE AnalyticsComponent
    /\ pending' = SetToBag(r.send)
    /\ lastView' = [op |-> "navigate"]
    /\ UNCHANGED <<authVars, apiVars>>

\* path '' -> DashboardComponent; ngOnInit calls refresh()
OpenDashboard ==
    /\ route' = "dashboard"
    /\ Show("dashboard", Dashboard_refresh(DashboardComponent))
OpenCompetitions ==
    /\ route' = "competitions"
    /\ Show("competitions", Competitions_load(CompetitionsComponent))
OpenTeams ==
    /\ route' = "teams"
    /\ Show("teams", Teams_load(TeamsComponent))
OpenPlayers ==
    /\ route' = "players"
    /\ Show("players", Players_load(PlayersComponent))
OpenMatches ==
    /\ route' = "matches"
    /\ Show("matches", Matches_load(MatchesComponent))
OpenAnalytics ==
    /\ route' = "analytics"
    /\ Show("analytics", Analytics_load(AnalyticsComponent))
\* path 'notes/:matchId'
OpenNotes(matchId) ==
    /\ route' = "notes"
    /\ Show("notes", Notes_ngOnInit(NotesComponent, Some(matchId)))

\* What a text input bound to a filter field may hold
Inputs == {"", "T1"}

\* A handler of the shown component ran: r.c are its fields, r.send was subscribed to.
Subscribe(r) ==
    /\ InFlight + Cardinality(r.send) <= MaxPending
    /\ pending' = pending (+) SetToBag(r.send)

\* The answer to subscription e arrives.
Answered(e, notif) ==
    /\ BagIn(e, pending)
    /\ notif \in Answers(e.op, e.request)
    /\ pending' = pending (-) SetToBag({e})

\* History of a response: which callbacks it went to, and whether as an error
\* with no error callback to take it (RxJS then reports it as unhandled).
Response(e, notif) ==
    [op |-> "response", for |-> e.for, kind |-> notif.kind,
     unhandled |-> notif.kind = "error"
                   /\ e.for \notin {"analytics.load", "notes.listNotes", "notes.createNote"}]

DashboardResponds(e, notif) ==
    /\ route = "dashboard"
    /\ Answered(e, notif)
    /\ dashboardComponent' = Dashboard_on(dashboardComponent, e.for, notif)
    /\ lastView' = Response(e, notif)
    /\ UNCHANGED <<route, competitionsComponent, teamsComponent, playersComponent,
                   matchesComponent, notesComponent, analyticsComponent>>
    /\ UNCHANGED <<authVars, apiVars>>

CompetitionsResponds(e, notif) ==
    /\ route = "competitions"
    /\ Answered(e, notif)
    /\ competitionsComponent' = Competitions_on(competitionsComponent, e.for, notif)
    /\ lastView' = Response(e, notif)
    /\ UNCHANGED <<route, dashboardComponent, teamsComponent, playersComponent,
                   matchesComponent, notesComponent, analyticsComponent>>
    /\ UNCHANGED <<authVars, apiVars>>

\* The name and country inputs of the teams view (ngModel)
TeamsInput(name, country) ==
    /\ route = "teams"
    /\ teamsComponent' = [teamsComponent EXCEPT !.name = name, !.country = country]
    /\ lastView' = [op |-> "input"]
    /\ UNCHANGED <<route, dashboardComponent, competitionsComponent, playersComponent,
                   matchesComponent, notesComponent, analyticsComponent, pending>>
    /\ UNCHANGED <<authVars, apiVars>>

TeamsLoad ==
    /\ route = "teams"
    /\ Subscribe(Teams_load(teamsComponent))
    /\ teamsComponent' = Teams_load(teamsComponent).c
    /\ lastView' = [op |-> "load"]
    /\ UNCHANGED <<route, dashboardComponent, competitionsComponent, playersComponent,
                   matchesComponent, notesComponent, analyticsComponent>>
    /\ UNCHANGED <<authVars, apiVars>>

TeamsResponds(e, notif) ==
    /\ route = "teams"
    /\ Answered(e, notif)
    /\ teamsComponent' = Teams_on(teamsComponent, e.for, notif)
    /\ lastView' = Response(e, notif)
    /\ UNCHANGED <<route, dashboardComponent, competitionsComponent, playersComponent,
                   matchesComponent, notesComponent, analyticsComponent>>
    /\ UNCHANGED <<authVars, apiVars>>

PlayersInput(team_id, position) ==
    /\ route = "players"
    /\ playersComponent' = [playersComponent EXCEPT !.team_id = team_id, !.position = position]
    /\ lastView' = [op |-> "input"]
    /\ UNCHANGED <<route, dashboardComponent, competitionsComponent, teamsComponent,
                   matchesComponent, notesComponent, analyticsComponent, pending>>
    /\ UNCHANGED <<authVars, apiVars>>

PlayersLoad ==
    /\ route = "players"
    /\ Subscribe(Players_load(playersComponent))
    /\ playersComponent' = Players_load(playersComponent).c
    /\ lastView' = [op |-> "load"]
    /\ UNCHANGED <<route, dashboardComponent, competitionsComponent, teamsComponent,
                   matchesComponent, notesComponent, analyticsComponent>>
    /\ UNCHANGED <<authVars, apiVars>>

PlayersResponds(e, notif) ==
    /\ route = "players"
    /\ Answered(e, notif)
    /\ playersComponent' = Players_on(playersComponent, e.for, notif)
    /\ lastView' = Response(e, notif)
    /\ UNCHANGED <<route, dashboardComponent, competitionsComponent, teamsComponent,
                   matchesComponent, notesComponent, analyticsComponent>>
    /\ UNCHANGED <<authVars, apiVars>>

MatchesInput(team_id, status) ==
    /\ route = "matches"
    /\ matchesComponent' = [matchesComponent EXCEPT !.team_id = team_id, !.status = status]
    /\ lastView' = [op |-> "input"]
    /\ UNCHANGED <<route, dashboardComponent, competitionsComponent, teamsComponent,
                   playersComponent, notesComponent, analyticsComponent, pending>>
    /\ UNCHANGED <<authVars, apiVars>>

MatchesLoad ==
    /\ route = "matches"
    /\ Subscribe(Matches_load(matchesComponent))
    /\ matchesComponent' = Matches_load(matchesComponent).c
    /\ lastView' = [op |-> "load"]
    /\ UNCHANGED <<route, dashboardComponent, competitionsComponent, teamsComponent,
                   playersComponent, notesComponent, analyticsComponent>>
    /\ UNCHANGED <<authVars, apiVars>>

MatchesResponds(e, notif) ==
    /\ route = "matches"
    /\ Answered(e, notif)
    /\ matchesComponent' = Matches_on(matchesComponent, e.for, notif)
    /\ lastView' = Response(e, notif)
    /\ UNCHANGED <<route, dashboardComponent, competitionsComponent, teamsComponent,
                   playersComponent, notesComponent, analyticsComponent>>
    /\ UNCHANGED <<authVars, apiVars>>

AnalyticsLoad ==
    /\ route = "analytics"
    /\ Subscribe(Analytics_load(analyticsComponent))
    /\ analyticsComponent' = Analytics_load(analyticsComponent).c
    /\ lastView' = [op |-> "load"]
    /\ UNCHANGED <<route, dashboardComponent, competitionsComponent, teamsComponent,
                   playersComponent, matchesComponent, notesComponent>>
    /\ UNCHANGED <<authVars, apiVars>>

AnalyticsResponds(e, notif) ==
    /\ route = "analytics"
    /\ Answered(e, notif)
    /\ analyticsComponent' = Analytics_on(analyticsComponent, e.for, notif)
    /\ lastView' = Response(e, notif)
    /\ UNCHANGED <<route, dashboardComponent, competitionsComponent, teamsComponent,
                   playersComponent, matchesComponent, notesComponent>>
    /\ UNCHANGED <<authVars, apiVars>>

otherThanNotes == <<route, dashboardComponent, competitionsComponent, teamsComponent,
                    playersComponent, matchesComponent, analyticsComponent>>

\* The note textarea (ngModel)
NotesInput(text) ==
    /\ route = "notes"
    /\ notesComponent' = [notesComponent EXCEPT !.noteText = text]
    /\ lastView' = [op |-> "input"]
    /\ UNCHANGED <<otherThanNotes, pending>>
    /\ UNCHANGED <<authVars, apiVars>>

NotesLoad ==
    /\ route = "notes"
    /\ Subscribe(Notes_load(notesComponent))
    /\ notesComponent' = Notes_load(notesComponent).c
    /\ lastView' = [op |-> "load"]
    /\ UNCHANGED otherThanNotes
    /\ UNCHANGED <<authVars, apiVars>>

NotesSaveNote ==
    /\ route = "notes"
    /\ Notes_saveNote(notesComponent).send # {} => Len(notesComponent.notes) < MaxNotes
    /\ Subscribe(Notes_saveNote(notesComponent))
    /\ notesComponent' = Notes_saveNote(notesComponent).c
    /\ lastView' = [op |-> "saveNote", text |-> notesComponent.noteText,
                    notes |-> notesComponent.notes, pending |-> pending]
    /\ UNCHANGED otherThanNotes
    /\ UNCHANGED <<authVars, apiVars>>

\* History: the handler that ran last was the success callback of delete(id)
JustDeleted(id) ==
    /\ lastView.op = "response"
    /\ lastView.for = "notes.delete"
    /\ lastView.kind = "next"
    /\ lastView.id = id

NotesDelete(id) ==
    /\ route = "notes"
    /\ Subscribe(Notes_delete(notesComponent, id))
    /\ notesComponent' = Notes_delete(notesComponent, id).c
    /\ lastView' = [op |-> "delete", id |-> id, again |-> JustDeleted(id)]
    /\ UNCHANGED otherThanNotes
    /\ UNCHANGED <<authVars, apiVars>>

\* History of a response to a delete: the component and the requests in flight
\* before it, and whether it answers a delete(id) called right after an
\* earlier delete(id) had removed the note.
DeleteResponse(e, notif) ==
    [op |-> "response", for |-> e.for, kind |-> notif.kind, id |-> Val(e.id),
     before |-> notesComponent, inFlight |-> InFlight,
     second |-> lastView.op = "delete" /\ lastView.id = Val(e.id) /\ lastView.again]

NotesResponds(e, notif) ==
    /\ route = "notes"
    /\ e.for \in {"notes.getMatch", "notes.listNotes", "notes.createNote", "notes.delete"}
    /\ Answered(e, notif)
    /\ notesComponent' = Notes_on(notesComponent, e, notif)
    /\ lastView' = IF e.for = "notes.delete" THEN DeleteResponse(e, notif)
                   ELSE Response(e, notif)
    /\ UNCHANGED otherThanNotes
    /\ UNCHANGED <<authVars, apiVars>>

\* Some other caller of ApiService.createNote subscribes to it.
ClientCreateNote(matchId, text) ==
    /\ Subscribe([send |-> { Sub("client.createNote", "createNote", createNote(matchId, text)) }])
    /\ lastView' = [op |-> "client"]
    /\ UNCHANGED <<route, componentVars>>
    /\ UNCHANGED <<authVars, apiVars>>

\* ... and gets the answer.
ClientAnswered(e, notif) ==
    /\ e.for = "client.createNote"
    /\ Answered(e, notif)
    /\ lastView' = [op |-> "response", for |-> e.for, kind |-> notif.kind,
                    note |-> Val(e.request.body).note]
    /\ UNCHANGED <<route, componentVars>>
    /\ UNCHANGED <<authVars, apiVars>>

Subscriptions == BagToSet(pending)
Notifications_(e) == Answers(e.op, e.request)

NextNotes ==
    \/ \E matchId \in {"m1"} : OpenNotes(matchId)
    \/ \E text \in Texts : NotesInput(text)
    \/ NotesLoad
    \/ NotesSaveNote
    \/ \E id \in NoteIds : NotesDelete(id)
    \/ \E e \in Subscriptions : \E notif \in Notifications_(e) : NotesResponds(e, notif)
    \/ \E text \in {<<>>, <<"a">>} : ClientCreateNote("m1", text)
    \/ \E e \in Subscriptions : \E notif \in Notifications_(e) : ClientAnswered(e, notif)

NextViews ==
    \/ OpenDashboard
    \/ OpenCompetitions
    \/ OpenTeams
    \/ OpenPlayers
    \/ OpenMatches
    \/ OpenAnalytics
    \/ \E matchId \in {"m1"} : OpenNotes(matchId)
    \/ \E e \in Subscriptions : \E notif \in Notifications_(e) : DashboardResponds(e, notif)
    \/ \E e \in Subscriptions : \E notif \in Notifications_(e) : CompetitionsResponds(e, notif)
    \/ \E name \in Inputs, country \in Inputs : TeamsInput(name, country)
    \/ TeamsLoad
    \/ \E e \in Subscriptions : \E notif \in Notifications_(e) : TeamsResponds(e, notif)
    \/ \E team_id \in Inputs, position \in Inputs : PlayersInput(team_id, position)
    \/ PlayersLoad
    \/ \E e \in Subscriptions : \E notif \in Notifications_(e) : PlayersResponds(e, notif)
    \/ \E team_id \in Inputs, status \in Inputs : MatchesInput(team_id, status)
    \/ MatchesLoad
    \/ \E e \in Subscriptions : \E notif \in Notifications_(e) : MatchesResponds(e, notif)
    \/ AnalyticsLoad
    \/ \E e \in Subscriptions : \E notif \in Notifications_(e) : AnalyticsResponds(e, notif)
    \/ \E text \in Texts : NotesInput(text)
    \/ NotesLoad
    \/ NotesSaveNote
    \/ \E id \in NoteIds : NotesDelete(id)
    \/ \E e \in Subscriptions : \E notif \in Notifications_(e) : NotesResponds(e, notif)

(***************************************************************************)
(* Specifications                                                          *)
(***************************************************************************)
\* An AuthService over whatever the browser's storage holds
InitAuthService ==
    /\ InitAuth
    /\ InitApi
    /\ InitViews

SpecAuth == InitAuthService /\ [][NextAuth]_vars

\* ApiService used by an arbitrary caller
InitApiService ==
    /\ AuthIdle
    /\ InitApi
    /\ InitViews

\* The routed views, one shown at a time
InitRouter ==
    /\ AuthIdle
    /\ InitApi
    /\ InitViews

SpecViews == InitRouter /\ [][NextViews]_vars

\* The notes view, and another caller of ApiService.createNote beside it
InitNotes ==
    /\ AuthIdle
    /\ InitApi
    /\ InitViews

SpecNotes == InitNotes /\ [][NextNotes]_vars

SpecApi == InitApiService /\ [][NextApi]_vars

(***************************************************************************)
(* Properties of AuthService                                               *)
(***************************************************************************)
EmptyStorage == [k \in Keys |-> None]
BothOrNeither(ls) == IsSome(ls[tokenKey]) <=> IsSome(ls[userKey])
Completed == lastAuth.op \in {"login", "register"}
Succeeded == Completed /\ lastAuth.notif.kind = "next"
Failed == Completed /\ lastAuth.notif.kind = "error"
\* The Identity that the stored user entry reads back as (None if there is none)
StoredIdentity(ls) ==
    IF IsSome(ls[userKey]) /\ JSON_parse(Val(ls[userKey])).ok
    THEN JSON_parse(Val(ls[userKey])).value
    ELSE None

\* C1: starting from storage that holds neither entry, after any sequence of
\* login, register (succeeding or failing) and logout, the token entry and the
\* Identity entry are both present or both absent.
C1_TokenAndIdentityTogether ==
    boot = EmptyStorage => BothOrNeither(localStorage)

C1_Witness ==
    /\ boot = EmptyStorage
    /\ Succeeded
    /\ IsSome(localStorage[tokenKey]) /\ IsSome(localStorage[userKey])

\* C2: when login or register is answered with success {token: t, user: u},
\* from any prior state, then right afterwards isAuthenticated() is true,
\* token is exactly t, both entries are persisted (the Identity entry reads
\* back as u) and the latest value of user$ is exactly u.
C2_SuccessAuthenticates ==
    Succeeded =>
        /\ isAuthenticated(localStorage)
        /\ token(localStorage) = Some(lastAuth.notif.value.token)
        /\ IsSome(localStorage[tokenKey]) /\ IsSome(localStorage[userKey])
        /\ StoredIdentity(localStorage) = Some(lastAuth.notif.value.user)
        /\ userSubject = Some(lastAuth.notif.value.user)

C2_Witness ==
    /\ Succeeded
    /\ lastAuth.op = "register"
    /\ isAuthenticated(lastAuth.pre.ls)
    /\ token(lastAuth.pre.ls) # Some(lastAuth.notif.value.token)
    /\ lastAuth.pre.subj # Some(lastAuth.notif.value.user)
    /\ userSubject = Some(lastAuth.notif.value.user)

\* C3: logout() has no failing branch and, from any state, leaves the session
\* Anonymous: isAuthenticated() is false, token is null, the latest value of
\* the identity stream is null, and storage holds neither entry.
C3_LogoutLeavesAnonymous ==
    /\ lastAuth.op = "logout" =>
          /\ ~isAuthenticated(localStorage)
          /\ token(localStorage) = None
          /\ userSubject = None
          /\ localStorage = EmptyStorage
          /\ published = lastAuth.pre.n + 1
    /\ (phase = "ok" /\ nAuthOps < MaxAuthOps) => ENABLED Logout

C3_Witness ==
    /\ lastAuth.op = "logout"
    /\ isAuthenticated(lastAuth.pre.ls)
    /\ IsSome(lastAuth.pre.subj)
    /\ localStorage = EmptyStorage

\* C4: when a login or register call fails, the stored token, the stored
\* Identity, isAuthenticated() and the latest value of the identity stream are
\* what they were before, nothing is published, and the error is delivered to
\* the caller's subscription as an error.
C4_FailureChangesNothing ==
    Failed =>
        /\ localStorage = lastAuth.pre.ls
        /\ isAuthenticated(localStorage) = isAuthenticated(lastAuth.pre.ls)
        /\ userSubject = lastAuth.pre.subj
        /\ published = lastAuth.pre.n
        /\ lastAuth.delivered.kind = "error"
        /\ lastAuth.delivered.value = lastAuth.notif.value

C4_Witness ==
    /\ Failed
    /\ isAuthenticated(lastAuth.pre.ls)
    /\ IsSome(lastAuth.pre.subj)
    /\ lastAuth.delivered.kind = "error"

\* C5: a freshly constructed AuthService never fails to construct and issues
\* no request; with a valid token+Identity pair in storage it starts
\* Authenticated with the stored Identity as the stream's first value; with
\* the entries absent or the stored Identity unparseable it starts Anonymous
\* with null as the stream's first value.
ValidPair(ls) ==
    /\ Truthy(ls[tokenKey])
    /\ IsSome(ls[userKey])
    /\ JSON_parse(Val(ls[userKey])).ok
    /\ IsSome(JSON_parse(Val(ls[userKey])).value)
Unparseable(ls) == IsSome(ls[userKey]) /\ ~JSON_parse(Val(ls[userKey])).ok
JustConstructed == phase # "new" /\ nAuthOps = 0

C5_InitialStateFromStorage ==
    JustConstructed =>
        /\ phase = "ok"
        /\ inflight = {}
        /\ ValidPair(boot) =>
              isAuthenticated(localStorage) /\ userSubject = StoredIdentity(boot)
        /\ (boot = EmptyStorage \/ Unparseable(boot)) =>
              ~isAuthenticated(localStorage) /\ userSubject = None

\* C9: with several login/register calls in flight and logout() invoked at
\* any point, the stored token, the stored Identity and the stream's latest
\* value all come from the one most recently applied transition, and
\* isAuthenticated() is true exactly when the stream's latest value is an
\* Identity.
C9_LastWriteWins ==
    IsSome(applied) =>
        /\ Val(applied).kind = "auth" =>
              /\ token(localStorage) = Some(Val(applied).res.token)
              /\ StoredIdentity(localStorage) = Some(Val(applied).res.user)
              /\ userSubject = Some(Val(applied).res.user)
        /\ Val(applied).kind = "logout" =>
              /\ localStorage = EmptyStorage
              /\ userSubject = None
        /\ isAuthenticated(localStorage) <=> IsSome(userSubject)

C9_Witness ==
    /\ Succeeded
    /\ inflight # {}
    /\ lastAuth.pre.n >= 1
    /\ ~isAuthenticated(lastAuth.pre.ls)
    /\ Val(applied).kind = "auth"

(***************************************************************************)
(* Properties of ApiService                                                *)
(***************************************************************************)
IsListCall == IsSome(apiCall) /\ Val(apiCall).op \in {"listTeams", "listPlayers", "listMatches"}
NonEmptyString(o) == o # None /\ o # Some("")
\* The value the caller gave for a key of the filter (None: no filter, or no such value)
Given(key) == IF Val(apiCall).filter = None THEN None ELSE Val(Val(apiCall).filter)[key]

\* C6: for every filter passed to listTeams, listPlayers or listMatches
\* (including none), the query parameters of the request are exactly the
\* recognized keys whose value is a non-empty string, each with that value.
C6_QueryParamsAreNonEmptyFilterKeys ==
    IsListCall =>
        LET keys == FilterKeys(Val(apiCall).op)
            sent == Val(outgoing).params
        IN  /\ {sent[i].key : i \in 1..Len(sent)} = {k \in keys : NonEmptyString(Given(k))}
            /\ \A i, j \in 1..Len(sent) : sent[i].key = sent[j].key => i = j
            /\ \A i \in 1..Len(sent) : Some(sent[i].value) = Given(sent[i].key)

C6_Witness ==
    /\ IsSome(apiCall)
    /\ Val(apiCall).op = "listMatches"
    /\ Val(apiCall).filter = Some([competition_id |-> None, season_id |-> Some(""),
                                   team_id |-> Some("T1"), status |-> Some("FT")])
    /\ Val(outgoing).params = << [key |-> "team_id", value |-> "T1"],
                                 [key |-> "status", value |-> "FT"] >>

(***************************************************************************)
(* Properties of the views                                                 *)
(***************************************************************************)
\* Text that is empty or whitespace only
Blank(text) == \A i \in 1..Len(text) : text[i] = " "

IsRemovalOf(r, l, id) ==
    LET kept == {i \in 1..Len(l) : l[i].id # id}
    IN  /\ Len(r) = Cardinality(kept)
        /\ \A i \in kept : r[Cardinality({j \in kept : j <= i})] = l[i]

DeleteAnswered == lastView.op = "response" /\ lastView.for = "notes.delete"

\* C8: the success callback of delete(id) leaves the list with every note of
\* that id removed and the others in order; a delete(id) called right after
\* that leaves the same list whatever its request ends in; a failed delete
\* changes nothing in the view, sets no error and is not retried.
C8_DeleteTwiceSameAsOnce ==
    DeleteAnswered =>
        /\ lastView.kind = "next" =>
              IsRemovalOf(notesComponent.notes, lastView.before.notes, lastView.id)
        /\ lastView.kind = "error" => notesComponent = lastView.before
        /\ lastView.second => notesComponent = lastView.before
        /\ notesComponent.error = lastView.before.error
        /\ InFlight = lastView.inFlight - 1

C8_Witness ==
    /\ DeleteAnswered
    /\ lastView.second
    /\ lastView.kind = "error"
    /\ notesComponent.notes # <<>>
    /\ notesComponent.notes = lastView.before.notes

\* The loading flag of the component shown
Loading ==
    CASE route = "dashboard" -> dashboardComponent.loading
      [] route = "competitions" -> competitionsComponent.loading
      [] route = "teams" -> teamsComponent.loading
      [] route = "players" -> playersComponent.loading
      [] route = "matches" -> matchesComponent.loading
      [] route = "notes" -> notesComponent.loading
      [] route = "analytics" -> analyticsComponent.loading
      [] OTHER -> FALSE

\* C10: in every view, once every request a load issued has been answered,
\* with success or with failure, loading is false again (it does not stay
\* true for ever).
C10_LoadingClearsOnceAnswered ==
    (route # "none" /\ pending = EmptyBag) => ~Loading
=============================================================================
